---- MODULE Spec2Model ----
(***************************************************************************)
(* A model of soxs/spectra.py: the Spectrum container (binned flux with    *)
(* cached totals and cumulative distribution, addition, rescaling,         *)
(* foreground absorption, line injection) and the ApecGenerator spectrum   *)
(* retrieval (key validation, temperature bracket, table interpolation).   *)
(*                                                                         *)
(* Numbers.  Floating-point values are modelled as extended rationals      *)
(* <<n, d>> in lowest terms with d >= 0: d > 0 is the finite value n/d,    *)
(* <<1,0>> and <<-1,0>> are +inf and -inf, <<0,0>> is NaN, so that a       *)
(* division by zero does what numpy does (a non-finite value, no error).   *)
(* Bin edges are whole numbers of keV.  np.exp(-x) is evaluated on optical *)
(* depths that are whole multiples of ln 2, where it is exactly 1/2^x.     *)
(***************************************************************************)
EXTENDS Integers, Sequences, FiniteSets, TLC

VARIABLES sp, nops, last, res, gen, acall, ares, hist, rng, budget, tbabs

vars == <<sp, nops, last, res, gen, acall, ares, hist, rng, budget, tbabs>>

\* ------------------------------------------------------------------ bounds
\* largest flux value of a constructed spectrum
MaxFlux == 1
\* number of calls followed on one Spectrum
MaxOps == 1
\* largest new_flux handed to rescale_flux
MaxNewFlux == 1
\* largest hydrogen column (in units of 1e24 cm**-2, 100 of the code's units)
MaxNH == 1
\* largest line amplitude / equivalent width handed to the line methods
MaxAmp == 1
\* edge offsets of the right operand of an addition, in units of 1e-8 keV
PertClose == 1000
PertFar == 10000
\* largest temperature asked of the generator (keV)
MaxKT == 10
\* largest abundance / norm handed to the generator
MaxAbund == 2

\* --------------------------------------------------- extended rationals
Abs(x) == IF x < 0 THEN -x ELSE x

Sign(x) == IF x > 0 THEN 1 ELSE IF x < 0 THEN -1 ELSE 0

RECURSIVE GCD(_, _)
GCD(a, b) == IF b = 0 THEN a ELSE GCD(b, a % b)

Norm(n, d) ==
  IF d = 0 THEN <<Sign(n), 0>>
  ELSE LET g == GCD(Abs(n), Abs(d))
       IN  <<(Sign(d) * n) \div g, Abs(d) \div g>>

Q(n) == <<n, 1>>

NaN == <<0, 0>>

IsFinite(a) == a[2] # 0

IsNaN(a) == a = NaN

RMul(a, b) ==
  IF IsFinite(a) /\ IsFinite(b)
  THEN LET g1 == GCD(Abs(a[1]), b[2])
           g2 == GCD(Abs(b[1]), a[2])
       IN  <<(a[1] \div g1) * (b[1] \div g2), (a[2] \div g2) * (b[2] \div g1)>>
  ELSE IF IsNaN(a) \/ IsNaN(b) THEN NaN
  ELSE <<Sign(a[1]) * Sign(b[1]), 0>>

RAdd(a, b) ==
  IF IsFinite(a) /\ IsFinite(b)
  THEN LET g == GCD(a[2], b[2])
       IN  Norm(a[1] * (b[2] \div g) + b[1] * (a[2] \div g), (a[2] \div g) * b[2])
  ELSE IF IsNaN(a) \/ IsNaN(b) THEN NaN
  ELSE IF ~IsFinite(a) /\ ~IsFinite(b) THEN (IF a = b THEN a ELSE NaN)
  ELSE IF IsFinite(a) THEN b ELSE a

RNeg(a) == <<-a[1], a[2]>>

RSub(a, b) == RAdd(a, RNeg(b))

\* 1/x as numpy computes it: 1/0 is inf, 1/inf is 0, 1/NaN is NaN
RRecip(a) ==
  IF a[1] = 0 THEN (IF a[2] = 0 THEN NaN ELSE <<1, 0>>)
  ELSE IF a[2] = 0 THEN <<0, 1>>
  ELSE <<Sign(a[1]) * a[2], Abs(a[1])>>

RDiv(a, b) == RMul(a, RRecip(b))

\* a <= b; every comparison with NaN is false
RLeq(a, b) ==
  IF IsNaN(a) \/ IsNaN(b) THEN FALSE
  ELSE IF IsFinite(a) /\ IsFinite(b) THEN a[1] * b[2] <= b[1] * a[2]
  ELSE IF ~IsFinite(a) THEN (a[1] < 0 \/ a = b)
  ELSE b[1] > 0

RLt(a, b) == RLeq(a, b) /\ a # b

RECURSIVE RSum(_)
RSum(s) == IF s = <<>> THEN Q(0) ELSE RAdd(RSum(SubSeq(s, 1, Len(s) - 1)), s[Len(s)])

\* np.exp(-k) for an optical depth of k units of ln 2
RECURSIVE ExpNeg(_)
ExpNeg(k) == IF k <= 0 THEN Q(1) ELSE RMul(<<1, 2>>, ExpNeg(k - 1))

\* ------------------------------------------------------------- constants
\* soxs.constants.erg_per_keV (1.602e-9), in units of 1e-9 erg per keV
erg_per_keV == <<8, 5>>

SpectrumUnits == "photon/(cm**2*s*keV)"

ConvolvedUnits == "photon/(s*keV)"

\* energy grids (bin edges in keV) spectra and generators are built on
Grids == {<<3, 5, 7>>, <<3, 5, 7, 9>>}

\* an absent optional argument (None)
NoneVal == -1

\* --------------------------------------------------------------- Spectrum
\* np.cumsum of flux*de with a leading 0.0 inserted: entry i is the sum of
\* the first i-1 bins
RECURSIVE CumSum(_, _, _)
CumSum(flux, de, i) ==
  IF i <= 1 THEN Q(0) ELSE RAdd(CumSum(flux, de, i - 1), RMul(flux[i - 1], de))

\* Spectrum._compute_total_flux: the cached totals and the cumulative
\* distribution of the object's current flux
_compute_total_flux(s) ==
  LET de == Q(s.de)
      n == Len(s.flux)
      cum == [i \in 1..(n + 1) |-> CumSum(s.flux, de, i)]
  IN  [s EXCEPT
        !.total_flux = RMul(RSum(s.flux), de),
        !.total_energy_flux =
            RMul(RSum([i \in 1..n |-> RMul(s.flux[i], RMul(s.emid[i], erg_per_keV))]), de),
        !.cumspec = [i \in 1..(n + 1) |-> RDiv(cum[i], cum[n + 1])]]

\* Spectrum.__init__
Spectrum(units, ebins, flux) ==
  LET nb == Len(ebins) - 1
  IN  _compute_total_flux(
        [units |-> units,
         ebins |-> ebins,
         emid |-> [i \in 1..nb |-> RMul(<<1, 2>>, Q(ebins[i + 1] + ebins[i]))],
         flux |-> flux,
         nbins |-> nb,
         de |-> ebins[2] - ebins[1],
         total_flux |-> Q(0),
         total_energy_flux |-> Q(0),
         cumspec |-> <<>>])

\* the result of a call: an exception, None, or a returned object
Raised(name) == [kind |-> "error", err |-> name, why |-> "other"]

Returned(obj) == [kind |-> "Spectrum", obj |-> obj]

NoResult == [kind |-> "None"]

\* no call made yet
NoCall == [op |-> "none"]

\* the calls made so far are kept with the object each one was made on and
\* what it returned or raised
Logged == hist' = Append(hist, [call |-> last', before |-> sp, result |-> res'])

\* the state of a RandomState object nobody has drawn from
FreshRng == 0

\* ---------------------------------------------------------------- addition
\* bin edges at the resolution of np.isclose's atol: units of 1e-8 keV
FineScale == 100000000

\* np.isclose defaults: atol = 1e-8 keV (1 fine unit), rtol = 1e-5
Atol == 1

RtolInv == 100000

\* a comparison for exact equality in place of np.isclose
isclose_exact(a, b) == a = b

\* np.isclose(a, b): |a - b| <= atol + rtol*|b|, a and b in fine units
isclose(a, b) == Abs(a - b) <= Atol + (Abs(b) \div RtolInv)

\* the condition of __add__'s first raise: `or` evaluates the isclose
\* comparison only for equal bin counts
BinningDiffers(self, other) ==
  \/ self.nbins # other.nbins
  \/ ~(\A i \in 1..Len(self.ebins) : isclose(self.ebins[i] * FineScale, other.ebins[i]))

\* __add__ without the comparison of the units
Spectrum_add_any_units(self, other) ==
  IF BinningDiffers(self, other) THEN Raised("RuntimeError")
  ELSE Returned(Spectrum(SpectrumUnits, self.ebins,
                         [i \in 1..Len(self.flux) |-> RAdd(self.flux[i], other.flux[i])]))

\* Spectrum.__add__; other carries its edges in fine units
Spectrum_add(self, other) ==
  IF BinningDiffers(self, other) THEN Raised("RuntimeError")
  ELSE IF self.units # other.units THEN Raised("RuntimeError")
  ELSE Returned(Spectrum(SpectrumUnits, self.ebins,
                         [i \in 1..Len(self.flux) |-> RAdd(self.flux[i], other.flux[i])]))

\* the right operands tried: built on one of the grids, or on the left
\* operand's edges with the last edge moved by a small or a large offset
Operands(self) ==
  LET fine(g) == [i \in 1..Len(g) |-> g[i] * FineScale]
      moved == {[fine(self.ebins) EXCEPT ![Len(self.ebins)] = @ + p] :
                  p \in {PertClose, PertFar}}
      edges == {fine(g) : g \in Grids} \cup moved
  IN  {[units |-> u, nbins |-> Len(e) - 1, ebins |-> e,
        flux |-> [i \in 1..(Len(e) - 1) |-> Q(IF i = 2 THEN a ELSE 1)]] :
         u \in {SpectrumUnits, ConvolvedUnits}, e \in edges, a \in 0..MaxFlux}

Add ==
  /\ nops < budget
  /\ \E other \in Operands(sp) :
       /\ last' = [op |-> "add", other |-> other]
       /\ res' = Spectrum_add(sp, other)
  /\ nops' = nops + 1
  /\ Logged
  /\ UNCHANGED <<sp, gen, acall, ares, rng, budget, tbabs>>

\* -------------------------------------------------------------- mutations
\* the bins whose midpoint lies in [emin, emax]; None stands for the first
\* and the last edge (rescale_flux, lines 341-347)
BandBins(s, emin, emax) ==
  LET lo == IF emin = NoneVal THEN s.ebins[1] ELSE emin
      hi == IF emax = NoneVal THEN s.ebins[Len(s.ebins)] ELSE emax
  IN  {i \in 1..Len(s.emid) : RLeq(Q(lo), s.emid[i]) /\ RLeq(s.emid[i], Q(hi))}

RECURSIVE RSumOver(_, _)
RSumOver(f, S) ==
  IF S = {} THEN Q(0)
  ELSE LET i == CHOOSE x \in S : \A y \in S : x <= y
       IN  RAdd(f[i], RSumOver(f, S \ {i}))

\* the band integral rescale_flux measures
BandFlux(s, emin, emax, flux_type) ==
  LET idxs == BandBins(s, emin, emax)
  IN  IF flux_type = "photons"
      THEN RMul(RSumOver(s.flux, idxs), Q(s.de))
      ELSE RMul(RSumOver([i \in 1..Len(s.flux) |->
                            RMul(s.flux[i], RMul(s.emid[i], erg_per_keV))], idxs), Q(s.de))

\* Spectrum.get_flux_in_band: <<pflux, eflux>> over the bins whose midpoint
\* lies in [emin, emax]
get_flux_in_band(s, emin, emax) ==
  LET range == [i \in 1..Len(s.emid) |->
                  RLeq(Q(emin), s.emid[i]) /\ RLeq(s.emid[i], Q(emax))]
      picked(f) == RSum([i \in 1..Len(f) |-> IF range[i] THEN f[i] ELSE Q(0)])
  IN  <<RMul(picked(s.flux), Q(s.de)),
        RMul(picked([i \in 1..Len(s.flux) |->
                       RMul(s.flux[i], RMul(s.emid[i], erg_per_keV))]), Q(s.de))>>

\* a mutating method that returns without recomputing the caches
Recompute_skipped(s) == s

\* what every mutating method does last (lines 353, 417, 449, 483)
Recompute(s) == _compute_total_flux(s)

\* rescale_flux with the factor applied to the bins of the band only
rescale_flux_band_only(s, new_flux, emin, emax, flux_type) ==
  LET f == BandFlux(s, emin, emax, flux_type)
      k == RDiv(Q(new_flux), f)
      idxs == BandBins(s, emin, emax)
  IN  Recompute([s EXCEPT !.flux = [i \in 1..Len(s.flux) |->
                    IF i \in idxs THEN RMul(s.flux[i], k) ELSE s.flux[i]]])

\* Spectrum.rescale_flux: the object after the call, when it returns
rescale_flux(s, new_flux, emin, emax, flux_type) ==
  LET f == BandFlux(s, emin, emax, flux_type)
      k == RDiv(Q(new_flux), f)
  IN  Recompute([s EXCEPT !.flux = [i \in 1..Len(s.flux) |-> RMul(s.flux[i], k)]])

\* wabs_cross_section's tables: breakpoints in eV, c0 and c1 in tenths, c2
\* in hundredths
wabs_emax == <<0, 100, 284, 400, 532, 707, 867, 1303, 1840, 2471, 3210, 4038, 7111, 8331, 10000>>

wabs_c0 == <<173, 346, 781, 714, 955, 3089, 1206, 1413, 2027, 3427, 3522, 4339, 6290, 7012>>

wabs_c1 == <<6081, 2679, 188, 668, 1458, -3806, 1693, 1468, 1047, 187, 187, -24, 309, 252>>

wabs_c2 == <<-215000, -47610, 430, -5140, -6110, 29400, -4770, -3150, -1700, 0, 0, 75, 0, 0>>

\* np.searchsorted(a, v), side "left": how many entries of a lie below v
searchsorted(a, v) == Cardinality({i \in 1..Len(a) : RLt(a[i], v)})

\* wabs_cross_section(E) in units of 1e-24 cm**2, E in keV
wabs_cross_section(E) ==
  LET n == searchsorted([i \in 1..Len(wabs_emax) |-> <<wabs_emax[i], 1000>>], E) - 1
      m == IF n < 13 THEN n ELSE 13
      \* a Python index: -1 is the last entry
      j == IF m < 0 THEN Len(wabs_c0) + m + 1 ELSE m + 1
      poly == RAdd(RAdd(Norm(wabs_c0[j], 10), RMul(Norm(wabs_c1[j], 10), E)),
                   RMul(Norm(wabs_c2[j], 100), RMul(E, E)))
  IN  RDiv(poly, RMul(E, RMul(E, E)))

\* the whole part of a finite value
Floor(a) == a[1] \div a[2]

\* the cross-section quantum: optical depths are whole multiples of ln 2 for
\* whole nH when sigma is a whole multiple of 2e-24 cm**2
SigmaQuantum == 2

\* a transmission that falls off as 1/(1 + tau) instead of exp(-tau)
Transmission_rational(nH, sigma) == RRecip(Q(1 + nH * Floor(RDiv(sigma, Q(SigmaQuantum)))))

\* np.exp(-nH*1.0e22*sigma): nH in units of ln 2 * 5e23 cm**-2, the cross
\* section taken in whole quanta
Transmission(nH, sigma) == ExpNeg(nH * Floor(RDiv(sigma, Q(SigmaQuantum))))

\* Spectrum.apply_foreground_absorption with model "wabs"
apply_foreground_absorption(s, nH, redshift) ==
  LET e == [i \in 1..Len(s.emid) |-> RMul(s.emid[i], Q(1 + redshift))]
  IN  Recompute([s EXCEPT !.flux = [i \in 1..Len(s.flux) |->
                    RMul(s.flux[i], Transmission(nH, wabs_cross_section(e[i])))]])

\* np.linspace(emin, emax, num) for num >= 2 and a whole step
linspace(emin, emax, num) ==
  [i \in 1..num |-> emin + (i - 1) * ((emax - emin) \div (num - 1))]

\* np.interp(x, xp, fp) for xp[0] <= x: the interval is the last one whose
\* left end is not above x
interp(x, xp, fp) ==
  LET j == CHOOSE i \in 1..Len(xp) :
             RLeq(xp[i], x) /\ \A k \in (i + 1)..Len(xp) : ~RLeq(xp[k], x)
  IN  IF j = Len(xp) THEN Q(fp[j])
      ELSE RAdd(Q(fp[j]),
                RMul(Q(fp[j + 1] - fp[j]),
                     RDiv(RSub(x, xp[j]), RSub(xp[j + 1], xp[j]))))

\* ------------------------------------------------------------------ tbabs
\* tbabs_table.h5: emin, emax and the cross_section array, in quanta of
\* SigmaQuantum (a stand-in for the bundled table)
TbabsFile == [emin |-> 3, emax |-> 13, cross_section |-> <<2, 1, 1, 1, 0>>]

\* _tbabs_spline = None: no spline object
NoSpline == [x |-> <<>>, y |-> <<>>, serial |-> 0]

\* the module globals _tbabs_emid, _tbabs_sigma and _tbabs_spline before the
\* first call, and how often the table file has been opened
NoTbabs == [emid |-> <<>>, sigma |-> <<>>, spline |-> NoSpline, opened |-> 0]

\* InterpolatedUnivariateSpline(x, y, k=5, ext=1): the object built, told
\* from every other by the place of its construction among the file reads
InterpolatedUnivariateSpline(x, y, serial) == [x |-> x, y |-> y, serial |-> serial]

\* spline(E): it passes through the table points (read linearly between
\* them) and, with ext=1, is zero outside the table's range
SplineAt(spline, E) ==
  IF RLt(E, spline.x[1]) \/ RLt(spline.x[Len(spline.x)], E) THEN Q(0)
  ELSE RMul(Q(SigmaQuantum), interp(E, spline.x, spline.y))

\* lines 970-979: the file is opened, read and closed, the globals are set
TbabsLoad(g) ==
  LET sigma == TbabsFile.cross_section
      nbins == Len(sigma)
      ebins == linspace(TbabsFile.emin, TbabsFile.emax, nbins + 1)
      emid == [i \in 1..nbins |-> RMul(<<1, 2>>, Q(ebins[i + 1] + ebins[i]))]
  IN  [emid |-> emid, sigma |-> sigma,
       spline |-> InterpolatedUnivariateSpline(emid, sigma, g.opened + 1),
       opened |-> g.opened + 1]

\* a tbabs_cross_section that reads the table at every call
tbabs_cross_section_reloading(g, E) ==
  LET g1 == TbabsLoad(g)
  IN  [globals |-> g1, sigma |-> SplineAt(g1.spline, E)]

\* tbabs_cross_section(E) called with the globals g: the globals it leaves
\* and the cross section returned (units of 1e-24 cm**2)
tbabs_cross_section(g, E) ==
  LET g1 == IF g.spline = NoSpline THEN TbabsLoad(g) ELSE g
  IN  [globals |-> g1, sigma |-> SplineAt(g1.spline, E)]

\* get_tbabs_absorb(e, nH)
get_tbabs_absorb(g, e, nH) ==
  LET c == tbabs_cross_section(g, e)
  IN  [globals |-> c.globals, absorb |-> Transmission(nH, c.sigma)]

\* Spectrum.apply_foreground_absorption with model "tbabs": one
\* tbabs_cross_section call on the array of shifted midpoints
apply_foreground_absorption_tbabs(s, nH, redshift, g) ==
  LET e == [i \in 1..Len(s.emid) |-> RMul(s.emid[i], Q(1 + redshift))]
      g1 == tbabs_cross_section(g, e[1]).globals
  IN  [globals |-> g1,
       obj |-> Recompute([s EXCEPT !.flux = [i \in 1..Len(s.flux) |->
                 RMul(s.flux[i], Transmission(nH, SplineAt(g1.spline, e[i])))]])]

\* sigma_to_fwhm / sqrt2pi (2.3548 / 2.5066)
GaussNorm == <<15, 16>>

\* Gaussian1D(amp, line_center, sigma)(e) with sigma = line_width/sigma_to_fwhm:
\* amp * exp(-(e - c)**2 / (2 sigma**2)) = amp / 2^((2(e - c)/FWHM)**2)
Gaussian1D(amp, line_center, line_width, e) ==
  LET m == RDiv(RMul(Q(2), RSub(e, Q(line_center))), Q(line_width))
  IN  RMul(amp, ExpNeg(Floor(RMul(m, m))))

\* Spectrum.add_emission_line with line_type "gaussian"
add_emission_line(s, line_center, line_width, line_amp) ==
  LET amp == RDiv(RMul(Q(line_amp), GaussNorm), Q(line_width))
  IN  Recompute([s EXCEPT !.flux = [i \in 1..Len(s.flux) |->
                    RAdd(s.flux[i], Gaussian1D(amp, line_center, line_width, s.emid[i]))]])

\* hc * sqrt2pi / sigma_to_fwhm * ln 2 (12.398 * 1.0645 * 0.693, keV angstrom)
HcNorm == 9

\* Spectrum.add_absorption_line with line_type "gaussian"; equiv_width in
\* angstrom, B in units of ln 2
add_absorption_line(s, line_center, line_width, equiv_width) ==
  LET B == Norm(equiv_width * line_center * line_center, HcNorm * line_width)
  IN  Recompute([s EXCEPT !.flux = [i \in 1..Len(s.flux) |->
                    RMul(s.flux[i],
                         ExpNeg(Floor(Gaussian1D(B, line_center, line_width, s.emid[i]))))]])

\* every line profile taken for a gaussian
ProfileImplemented_any(line_type) == TRUE

\* the test both line methods make before building the profile: only the
\* "gaussian" branch exists, every other line_type reaches the raise
ProfileImplemented(line_type) == line_type = "gaussian"

\* the profile names the calls are tried with
LineTypes == {"gaussian", "voigt"}

\* the bands, line centres and widths the calls are tried with
Bands == {<<NoneVal, NoneVal>>, <<5, NoneVal>>, <<0, 1>>}

LineCenters == {4, 6}

LineWidths == {4}

RescaleFlux ==
  /\ nops < budget
  /\ \E new_flux \in 0..MaxNewFlux, band \in Bands, flux_type \in {"photons", "energy", "counts"} :
       /\ last' = [op |-> "rescale_flux", new_flux |-> new_flux, band |-> band,
                   flux_type |-> flux_type]
       /\ IF flux_type \in {"photons", "energy"}
          THEN /\ sp' = rescale_flux(sp, new_flux, band[1], band[2], flux_type)
               /\ res' = NoResult
          ELSE \* f is never bound: UnboundLocalError at line 352
               /\ sp' = sp
               /\ res' = Raised("UnboundLocalError")
  /\ nops' = nops + 1
  /\ Logged
  /\ UNCHANGED <<gen, acall, ares, rng, budget, tbabs>>

ApplyForegroundAbsorption ==
  /\ nops < budget
  /\ \E nH \in 0..MaxNH, model \in {"wabs", "tbabs", "phabs"}, redshift \in {0, 1} :
       /\ last' = [op |-> "apply_foreground_absorption", nH |-> nH, model |-> model,
                   redshift |-> redshift]
       /\ IF model = "wabs"
          THEN /\ sp' = apply_foreground_absorption(sp, nH, redshift)
               /\ res' = NoResult
               /\ tbabs' = tbabs
          ELSE IF model = "tbabs"
          THEN LET out == apply_foreground_absorption_tbabs(sp, nH, redshift, tbabs)
               IN  /\ sp' = out.obj
                   /\ res' = NoResult
                   /\ tbabs' = out.globals
          ELSE \* sigma is never bound: UnboundLocalError at line 416
               /\ sp' = sp
               /\ res' = Raised("UnboundLocalError")
               /\ tbabs' = tbabs
  /\ nops' = nops + 1
  /\ Logged
  /\ UNCHANGED <<gen, acall, ares, rng, budget>>

AddEmissionLine ==
  /\ nops < budget
  /\ \E c \in LineCenters, w \in LineWidths, a \in 1..MaxAmp, line_type \in LineTypes :
       /\ last' = [op |-> "add_emission_line", line_center |-> c, line_width |-> w,
                   line_amp |-> a, line_type |-> line_type]
       /\ IF ProfileImplemented(line_type)
          THEN /\ sp' = add_emission_line(sp, c, w, a)
               /\ res' = NoResult
          ELSE /\ sp' = sp
               /\ res' = Raised("NotImplementedError")
  /\ nops' = nops + 1
  /\ Logged
  /\ UNCHANGED <<gen, acall, ares, rng, budget, tbabs>>

AddAbsorptionLine ==
  /\ nops < budget
  /\ \E c \in LineCenters, w \in LineWidths, a \in 1..MaxAmp, line_type \in LineTypes :
       /\ last' = [op |-> "add_absorption_line", line_center |-> c, line_width |-> w,
                   equiv_width |-> a, line_type |-> line_type]
       /\ IF ProfileImplemented(line_type)
          THEN /\ sp' = add_absorption_line(sp, c, w, a)
               /\ res' = NoResult
          ELSE /\ sp' = sp
               /\ res' = Raised("NotImplementedError")
  /\ nops' = nops + 1
  /\ Logged
  /\ UNCHANGED <<gen, acall, ares, rng, budget, tbabs>>

\* the energies and columns the module-level tbabs functions are tried with
TbabsEnergies == {4, 7, 16}

TbabsCrossSection ==
  /\ nops < budget
  /\ \E E \in TbabsEnergies :
       LET out == tbabs_cross_section(tbabs, Q(E))
       IN  /\ last' = [op |-> "tbabs_cross_section", E |-> E]
           /\ res' = [kind |-> "value", value |-> out.sigma]
           /\ tbabs' = out.globals
  /\ nops' = nops + 1
  /\ Logged
  /\ UNCHANGED <<sp, gen, acall, ares, rng, budget>>

GetTbabsAbsorb ==
  /\ nops < budget
  /\ \E e \in TbabsEnergies, nH \in 0..MaxNH :
       LET out == get_tbabs_absorb(tbabs, Q(e), nH)
       IN  /\ last' = [op |-> "get_tbabs_absorb", e |-> e, nH |-> nH]
           /\ res' = [kind |-> "value", value |-> out.absorb]
           /\ tbabs' = out.globals
  /\ nops' = nops + 1
  /\ Logged
  /\ UNCHANGED <<sp, gen, acall, ares, rng, budget>>

\* the bands get_flux_in_band is tried with
FluxBands == {0, 3, 5} \X {5, 9, 10}

GetFluxInBand ==
  /\ last = NoCall
  /\ \E band \in FluxBands :
       /\ last' = [op |-> "get_flux_in_band", emin |-> band[1], emax |-> band[2]]
       /\ res' = [kind |-> "value", value |-> get_flux_in_band(sp, band[1], band[2])]
  /\ nops' = nops + 1
  /\ Logged
  /\ UNCHANGED <<sp, gen, acall, ares, rng, budget, tbabs>>

\* ------------------------------------------------------- ConvolvedSpectrum
\* largest effective area of a response (cm**2)
MaxArea == 1

\* the responses tried: an effective area for each whole energy a bin
\* midpoint of the grid <<3, 5, 7>> takes
Arfs == [{4, 6} -> 0..MaxArea]

\* AuxiliaryResponseFile.interpolate_area at a tabulated energy
interpolate_area(arf, e) == Q(arf[Floor(e)])

\* ConvolvedSpectrum.__init__: the Spectrum constructor on rate = flux*earea,
\* with the response kept
ConvolvedSpectrum(spectrum, arf) ==
  LET rate == [i \in 1..Len(spectrum.flux) |->
                 RMul(spectrum.flux[i], interpolate_area(arf, spectrum.emid[i]))]
      base == Spectrum(ConvolvedUnits, spectrum.ebins, rate)
  IN  [units |-> base.units, ebins |-> base.ebins, emid |-> base.emid, flux |-> base.flux,
       nbins |-> base.nbins, de |-> base.de, total_flux |-> base.total_flux,
       total_energy_flux |-> base.total_energy_flux, cumspec |-> base.cumspec,
       arf |-> arf]

\* np.finfo(float).max, which np.nan_to_num puts in the place of infinity:
\* finite and above every other value of the model
FloatMax == 1000

\* np.nan_to_num: NaN becomes 0.0, +inf and -inf the largest and the
\* smallest finite float
nan_to_num(x) ==
  IF IsFinite(x) THEN x
  ELSE IF IsNaN(x) THEN Q(0)
  ELSE IF x = <<1, 0>> THEN Q(FloatMax) ELSE Q(-FloatMax)

\* ConvolvedSpectrum.deconvolve
deconvolve(s) ==
  Spectrum(SpectrumUnits, s.ebins,
           [i \in 1..Len(s.flux) |->
              nan_to_num(RDiv(s.flux[i], interpolate_area(s.arf, s.emid[i])))])

\* the override replaced by the method it overrides
ConvolvedSpectrum_apply_foreground_absorption_inherited(s, nH, model) ==
  [obj |-> apply_foreground_absorption(s, nH, 0), result |-> NoResult]

\* ConvolvedSpectrum.apply_foreground_absorption: the object after the call
\* and the outcome
ConvolvedSpectrum_apply_foreground_absorption(s, nH, model) ==
  [obj |-> s, result |-> Raised("NotImplementedError")]

\* the class methods ConvolvedSpectrum overrides
ConvolvedConstructors == {"from_constant", "from_powerlaw", "from_xspec_model",
                          "from_xspec_script"}

\* any of them, whatever the arguments
ConvolvedSpectrum_from_model(name) == Raised("NotImplementedError")

ConvolvedApplyForegroundAbsorption ==
  /\ nops < budget
  /\ \E nH \in 0..MaxNH, model \in {"wabs", "tbabs"} :
       LET out == ConvolvedSpectrum_apply_foreground_absorption(sp, nH, model)
       IN  /\ last' = [op |-> "apply_foreground_absorption", nH |-> nH, model |-> model]
           /\ sp' = out.obj
           /\ res' = out.result
  /\ nops' = nops + 1
  /\ Logged
  /\ UNCHANGED <<gen, acall, ares, rng, budget, tbabs>>

\* a class method: one call is followed, before any call on the object
ConvolvedFromModel ==
  /\ last = NoCall
  /\ \E name \in ConvolvedConstructors :
       /\ last' = [op |-> name, cls |-> "ConvolvedSpectrum"]
       /\ res' = ConvolvedSpectrum_from_model(name)
  /\ nops' = nops + 1
  /\ Logged
  /\ UNCHANGED <<sp, gen, acall, ares, rng, budget, tbabs>>

\* deconvolve changes nothing the object holds: it is followed once, after
\* any number of the calls the budget allows
Deconvolve ==
  /\ nops <= budget
  /\ \A k \in 1..Len(hist) : hist[k].call.op # "deconvolve"
  /\ last' = [op |-> "deconvolve"]
  /\ res' = Returned(deconvolve(sp))
  /\ nops' = nops + 1
  /\ Logged
  /\ UNCHANGED <<sp, gen, acall, ares, rng, budget, tbabs>>

\* ------------------------------------------------------------ construction
\* largest photon index, normalization and bin count handed to from_powerlaw
MaxAlpha == 2

MaxNorm == 2

MaxBins == 2

\* a raised to the whole power k
RECURSIVE RPow(_, _)
RPow(a, k) ==
  IF k = 0 THEN Q(1)
  ELSE IF k < 0 THEN RRecip(RPow(a, -k))
  ELSE RMul(a, RPow(a, k - 1))

\* from_powerlaw with the flux taken at the left edge of each bin
from_powerlaw_left_edge(photon_index, redshift, norm, emin, emax, nbins) ==
  LET ebins == linspace(emin, emax, nbins + 1)
  IN  Spectrum(SpectrumUnits, ebins,
               [i \in 1..nbins |->
                  RMul(Q(norm), RPow(RMul(Q(ebins[i]), Q(1 + redshift)), -photon_index))])

\* Spectrum.from_powerlaw
from_powerlaw(photon_index, redshift, norm, emin, emax, nbins) ==
  LET ebins == linspace(emin, emax, nbins + 1)
      emid == [i \in 1..nbins |-> RMul(<<1, 2>>, Q(ebins[i + 1] + ebins[i]))]
  IN  Spectrum(SpectrumUnits, ebins,
               [i \in 1..nbins |->
                  RMul(Q(norm), RPow(RMul(emid[i], Q(1 + redshift)), -photon_index))])

\* new_spec_from_band with the lower end of the band left out
new_spec_from_band_open(s, emin, emax) ==
  LET idxs == {i \in 1..Len(s.ebins) : emin < s.ebins[i] /\ s.ebins[i] <= emax}
      first == CHOOSE i \in idxs : \A j \in idxs : i <= j
      n == Cardinality(idxs)
  IN  IF n < 2 THEN Raised("IndexError")
      ELSE Returned(Spectrum(SpectrumUnits,
                             [k \in 1..n |-> s.ebins[first + k - 1]],
                             [k \in 1..(n - 1) |-> s.flux[first + k - 1]]))

\* Spectrum.new_spec_from_band: the edges in [emin, emax] are consecutive;
\* idxs[:-1] are the bins that start at all of them but the last. Fewer
\* than two edges leave Spectrum.__init__ without an ebins[1]: IndexError
new_spec_from_band(s, emin, emax) ==
  LET idxs == {i \in 1..Len(s.ebins) : emin <= s.ebins[i] /\ s.ebins[i] <= emax}
      first == CHOOSE i \in idxs : \A j \in idxs : i <= j
      n == Cardinality(idxs)
  IN  IF n < 2 THEN Raised("IndexError")
      ELSE Returned(Spectrum(SpectrumUnits,
                             [k \in 1..n |-> s.ebins[first + k - 1]],
                             [k \in 1..(n - 1) |-> s.flux[first + k - 1]]))

\* the arguments the constructions are tried with
PhotonIndexes == (-1)..MaxAlpha

LowestEdges == {0, 1, 3}

BinWidths == {2, 4}

BandEnds == 2..10

\* A class method and a method that returns a new object change nothing the
\* Spectrum holds: one call is followed from each Spectrum.
FromPowerlaw ==
  /\ last = NoCall
  /\ \E photon_index \in PhotonIndexes, redshift \in {0, 1}, norm \in 1..MaxNorm,
        emin \in LowestEdges, nbins \in 1..MaxBins, width \in BinWidths :
       /\ last' = [op |-> "from_powerlaw", photon_index |-> photon_index,
                   redshift |-> redshift, norm |-> norm, emin |-> emin,
                   emax |-> emin + nbins * width, nbins |-> nbins]
       /\ res' = Returned(from_powerlaw(photon_index, redshift, norm, emin,
                                        emin + nbins * width, nbins))
  /\ nops' = nops + 1
  /\ Logged
  /\ UNCHANGED <<sp, gen, acall, ares, rng, budget, tbabs>>

NewSpecFromBand ==
  /\ last = NoCall
  /\ \E emin \in BandEnds, emax \in BandEnds :
       /\ last' = [op |-> "new_spec_from_band", emin |-> emin, emax |-> emax]
       /\ res' = new_spec_from_band(sp, emin, emax)
  /\ nops' = nops + 1
  /\ Logged
  /\ UNCHANGED <<sp, gen, acall, ares, rng, budget, tbabs>>

\* ---------------------------------------------------------------- sampling
\* A RandomState is modelled by a congruential generator of full period:
\* its state is a residue, every draw advances it by one step
RngMod == 16

RngMul == 5

RngInc == 3

RngStep(state) == (RngMul * state + RngInc) % RngMod

\* RandomState(seed)
RandomState(seed) == seed % RngMod

\* parse_prng(prng): an integer seeds a new RandomState, a RandomState
\* object is used as it is (shared is the state of that object)
parse_prng(prng, shared) == IF prng.kind = "seed" THEN RandomState(prng.seed) ELSE shared

\* prng.poisson(lam): the count drawn and the state after the draw; the count
\* lies within one of the whole part of lam and is 0 for lam = 0; a NaN,
\* infinite or negative lam raises ValueError
poisson(state, lam) ==
  IF ~IsFinite(lam) \/ RLt(lam, Q(0)) THEN Raised("ValueError")
  ELSE LET s1 == RngStep(state)
           n == Floor(lam) + (s1 % 3) - 1
       IN  [kind |-> "ok", state |-> s1,
            n |-> IF lam = Q(0) \/ n < 0 THEN 0 ELSE n]

\* the state of the generator after n draws
RECURSIVE RngAfter(_, _)
RngAfter(state, n) == IF n = 0 THEN state ELSE RngAfter(RngStep(state), n - 1)

\* prng.uniform(size=n): the n residues drawn, in the order drawn
uniform(state, n) == [i \in 1..n |-> RngAfter(state, i)]

\* randvec.sort()
RECURSIVE SortInts(_)
SortInts(l) ==
  IF Len(l) <= 1 THEN l
  ELSE LET k == CHOOSE i \in 1..Len(l) : \A j \in 1..Len(l) : l[i] <= l[j]
       IN  <<l[k]>> \o SortInts(SubSeq(l, 1, k - 1) \o SubSeq(l, k + 1, Len(l)))

\* _generate_energies with the uniform variates drawn from the state the
\* generator had before the Poisson draw
_generate_energies_rewound(spec, t_exp, rate, state) ==
  LET p == poisson(state, RMul(Q(t_exp), rate))
  IN  IF p.kind = "error" THEN p
      ELSE LET randvec == SortInts(uniform(state, p.n))
           IN  [kind |-> "ok", state |-> RngAfter(p.state, p.n), n |-> p.n,
                e |-> [i \in 1..p.n |->
                         interp(Norm(randvec[i], RngMod), spec.cumspec, spec.ebins)]]

\* _generate_energies: the Poisson count, then that many sorted uniform
\* variates mapped through the inverse cumulative distribution
_generate_energies(spec, t_exp, rate, state) ==
  LET p == poisson(state, RMul(Q(t_exp), rate))
  IN  IF p.kind = "error" THEN p
      ELSE LET randvec == SortInts(uniform(p.state, p.n))
           IN  [kind |-> "ok", state |-> RngAfter(p.state, p.n), n |-> p.n,
                e |-> [i \in 1..p.n |->
                         interp(Norm(randvec[i], RngMod), spec.cumspec, spec.ebins)]]

\* Spectrum.generate_energies from the generator state parse_prng gave: the
\* Energies returned (or the error) and the state the generator is left in
generate_energies(s, t_exp, area, state) ==
  LET rate == RMul(Q(area), s.total_flux)
      g == _generate_energies(s, t_exp, rate, state)
  IN  IF g.kind = "error" THEN [result |-> g, state |-> state]
      ELSE [result |-> [kind |-> "Energies", energy |-> g.e, n |-> g.n,
                        flux |-> RDiv(RDiv(RMul(RSum(g.e), erg_per_keV), Q(t_exp)),
                                      Q(area))],
            state |-> g.state]

\* the exposure times, areas and random sources the calls are tried with
Exposures == {1, 2}

Areas == {1, 2}

PrngArgs == {[kind |-> "seed", seed |-> 1], [kind |-> "seed", seed |-> 2],
             [kind |-> "RandomState"]}

GenerateEnergies ==
  /\ nops < budget
  /\ \E t_exp \in Exposures, area \in Areas, prng \in PrngArgs :
       LET state == parse_prng(prng, rng)
           out == generate_energies(sp, t_exp, area, state)
       IN  /\ last' = [op |-> "generate_energies", t_exp |-> t_exp, area |-> area,
                       prng |-> prng, state |-> state]
           /\ res' = out.result
           /\ rng' = IF prng.kind = "seed" THEN rng ELSE out.state
  /\ nops' = nops + 1
  /\ Logged
  /\ UNCHANGED <<sp, gen, acall, ares, budget, tbabs>>

\* ----------------------------------------------------------- ApecGenerator
\* soxs.constants.elem_names, cosmic_elem and metal_elem, cut to the first
\* eight elements; an element's atomic number is its place in elem_names
elem_names == <<"H", "He", "Li", "Be", "B", "C", "N", "O">>

cosmic_elem == <<1, 2, 3, 4, 5>>

metal_elem == <<6, 7, 8>>

\* the temperature grid read from the line file (keV)
Tvals == <<2, 4, 8>>

\* elem_names.index(e)
elem_index(e) == CHOOSE z \in 1..Len(elem_names) : elem_names[z] = e

\* the var_elem strings tried, as "^" in elem, elem.split("^") and int()
\* read them: the element name and the ionization state
ParsedElem ==
  [s \in {"C", "O", "O^1", "O^2", "O^01"} |->
     CASE s = "C" -> [caret |-> FALSE, e |-> "C", ion |-> 0]
       [] s = "O" -> [caret |-> FALSE, e |-> "O", ion |-> 0]
       [] s = "O^1" -> [caret |-> TRUE, e |-> "O", ion |-> 1]
       [] s = "O^2" -> [caret |-> TRUE, e |-> "O", ion |-> 2]
       [] s = "O^01" -> [caret |-> TRUE, e |-> "O", ion |-> 1]]

\* "%s^%d" % (name, ion)
ion_name(e, ion) ==
  CASE <<e, ion>> = <<"C", 0>> -> "C^0"
    [] <<e, ion>> = <<"O", 0>> -> "O^0"
    [] <<e, ion>> = <<"O", 1>> -> "O^1"
    [] <<e, ion>> = <<"O", 2>> -> "O^2"

\* list.sort(key=lambda x: (x[0], x[1])) on [atomic number, ion] pairs
RECURSIVE SortPairs(_)
SortPairs(l) ==
  IF Len(l) <= 1 THEN l
  ELSE LET before(a, b) == a[1] < b[1] \/ (a[1] = b[1] /\ a[2] <= b[2])
           k == CHOOSE i \in 1..Len(l) :
                  /\ \A j \in 1..Len(l) : before(l[i], l[j])
                  /\ \A j \in 1..(i - 1) : ~before(l[j], l[i])
       IN  <<l[k]>> \o SortPairs(SubSeq(l, 1, k - 1) \o SubSeq(l, k + 1, Len(l)))

SeqToSet(l) == {l[i] : i \in 1..Len(l)}

\* the sequence l without the members of S, in order
RECURSIVE Without(_, _)
Without(l, S) ==
  IF l = <<>> THEN <<>>
  ELSE (IF l[1] \in S THEN <<>> ELSE <<l[1]>>) \o Without(Tail(l), S)

\* ApecGenerator.__init__ on grid ebins: the generator, or the error raised.
\* var_elem is [none |-> TRUE] or [none |-> FALSE, list |-> strings]; lines
\* are binned without broadening and the abundance table is the default
ApecGenerator(ebins, var_elem, nei) ==
  IF nei /\ var_elem.none THEN Raised("RuntimeError")
  ELSE IF ~var_elem.none /\ Len(var_elem.list) # Cardinality(SeqToSet(var_elem.list))
  THEN Raised("RuntimeError")
  ELSE IF ~var_elem.none /\ \E i \in 1..Len(var_elem.list) :
                              ParsedElem[var_elem.list[i]].caret # nei
  THEN Raised("RuntimeError")
  ELSE IF ~var_elem.none /\ var_elem.list = <<>>
  THEN \* np.array([]) has one axis: var_elem[:, 0] fails
       Raised("IndexError")
  ELSE
    LET nb == Len(ebins) - 1
        ve == IF var_elem.none THEN <<>>
              ELSE SortPairs([i \in 1..Len(var_elem.list) |->
                     <<elem_index(ParsedElem[var_elem.list[i]].e),
                       ParsedElem[var_elem.list[i]].ion>>])
        free == {ve[i][1] : i \in 1..Len(ve)}
    IN  [kind |-> "ApecGenerator",
         nei |-> nei,
         nbins |-> nb,
         ebins |-> ebins,
         de |-> [i \in 1..nb |-> ebins[i + 1] - ebins[i]],
         emid |-> [i \in 1..nb |-> RMul(<<1, 2>>, Q(ebins[i + 1] + ebins[i]))],
         nT |-> Len(Tvals),
         dTvals |-> [i \in 1..(Len(Tvals) - 1) |-> Tvals[i + 1] - Tvals[i]],
         var_elem |-> ve,
         var_elem_names |-> [i \in 1..Len(ve) |-> elem_names[ve[i][1]]],
         var_ion_names |-> [i \in 1..Len(ve) |-> ion_name(elem_names[ve[i][1]], ve[i][2])],
         num_var_elem |-> Len(ve),
         cosmic_elem |-> Without(IF nei THEN <<1, 2>> ELSE cosmic_elem, free),
         metal_elem |-> IF nei THEN <<>> ELSE Without(metal_elem, free)]

\* the line table of temperature row ikT (0-based): element, rest energy
\* hc/lambda in keV, emissivity in units of 1e-14, driving ion
LineTable(ikT) ==
  {[element |-> 1, energy |-> 4, epsilon |-> ikT + 1, ion_drv |-> 2],
   [element |-> 6, energy |-> 6, epsilon |-> 2 * (ikT + 1), ion_drv |-> 1],
   [element |-> 8, energy |-> 4, epsilon |-> 3, ion_drv |-> 2],
   [element |-> 8, energy |-> 8, epsilon |-> ikT + 2, ion_drv |-> 3],
   [element |-> 8, energy |-> 12, epsilon |-> 5, ion_drv |-> 2]}

\* the continuum table of temperature row ikT: a flat continuum and a flat
\* pseudo-continuum per row; rmJ is 0 in the equilibrium file
CocoTable(nei, ikT) ==
  IF nei
  THEN {[Z |-> 1, rmJ |-> 2, Continuum |-> ikT + 1, Pseudo |-> 0],
        [Z |-> 8, rmJ |-> 2, Continuum |-> 2, Pseudo |-> ikT]}
  ELSE {[Z |-> 1, rmJ |-> 0, Continuum |-> ikT + 1, Pseudo |-> 0],
        [Z |-> 8, rmJ |-> 0, Continuum |-> 2, Pseudo |-> ikT]}

RECURSIVE SumEpsilon(_)
SumEpsilon(rows) ==
  IF rows = {} THEN Q(0)
  ELSE LET r == CHOOSE x \in rows : TRUE
       IN  RAdd(Q(r.epsilon), SumEpsilon(rows \ {r}))

\* np.histogram(E0, ebins, weights=amp)[0][b]: bins are half-open, the last
\* one closed
Histogram(g, rows, scale_factor, b) ==
  SumEpsilon({r \in rows :
     LET E0 == RMul(Q(r.energy), scale_factor)
     IN  /\ RLeq(Q(g.ebins[b]), E0)
         /\ IF b = g.nbins THEN RLeq(E0, Q(g.ebins[b + 1]))
            ELSE RLt(E0, Q(g.ebins[b + 1]))})

\* ApecGenerator._make_spectrum for temperature row ikT
_make_spectrum(g, ikT, element, ion, scale_factor) ==
  LET rows == {r \in LineTable(ikT) :
                 /\ r.element = element
                 /\ r.energy < g.ebins[g.nbins + 1]
                 /\ r.energy > g.ebins[1]
                 /\ (g.nei => r.ion_drv = ion + 1)}
      lines == [b \in 1..g.nbins |-> Histogram(g, rows, scale_factor, b)]
      ind == {r \in CocoTable(g.nei, ikT) :
                r.Z = element /\ r.rmJ = ion + (IF g.nei THEN 1 ELSE 0)}
  IN  IF ind = {} THEN lines
      ELSE LET c == CHOOSE r \in ind : TRUE
               de0 == [b \in 1..g.nbins |-> RDiv(Q(g.de[b]), scale_factor)]
           IN  [b \in 1..g.nbins |->
                  RMul(RAdd(RAdd(lines[b], RMul(Q(c.Continuum), de0[b])),
                            RMul(Q(c.Pseudo), de0[b])),
                       scale_factor)]

\* the elementwise sum of the spectra of a list of elements
RECURSIVE SumSpectra(_, _, _, _)
SumSpectra(g, ikT, elems, scale_factor) ==
  IF elems = <<>> THEN [b \in 1..g.nbins |-> Q(0)]
  ELSE LET rest == SumSpectra(g, ikT, Tail(elems), scale_factor)
           one == _make_spectrum(g, ikT, elems[1], IF g.nei THEN elems[1] ELSE 0,
                                 scale_factor)
       IN  [b \in 1..g.nbins |-> RAdd(one[b], rest[b])]

\* ApecGenerator._get_table: for each requested row the cosmic and metal
\* spectra, and for each free element its spectrum of each requested row
_get_table(g, indices, redshift) ==
  LET scale_factor == RDiv(Q(1), Q(1 + redshift))
  IN  [cspec |-> [i \in 1..Len(indices) |->
                    SumSpectra(g, indices[i], g.cosmic_elem, scale_factor)],
       mspec |-> [i \in 1..Len(indices) |->
                    SumSpectra(g, indices[i], g.metal_elem, scale_factor)],
       vspec |-> [j \in 1..g.num_var_elem |-> [i \in 1..Len(indices) |->
                    _make_spectrum(g, indices[i], g.var_elem[j][1], g.var_elem[j][2],
                                   scale_factor)]]]

\* an index check that takes no negative index
PyIndexOK_nonneg(n, i) == 0 <= i /\ i < n

\* whether the Python index i (0-based, negative from the end) is in a
\* sequence of length n
PyIndexOK(n, i) == -n <= i /\ i < n

\* seq[i] for a Python index
PyGet(seq, i) == IF i < 0 THEN seq[Len(seq) + i + 1] ELSE seq[i + 1]

\* ApecGenerator._spectrum_init: tindex and dT, or the IndexError of
\* self.dTvals[tindex]
_spectrum_init(g, kT) ==
  LET tindex == searchsorted([i \in 1..Len(Tvals) |-> Q(Tvals[i])], Q(kT)) - 1
  IN  IF ~PyIndexOK(Len(Tvals), tindex) \/ ~PyIndexOK(Len(g.dTvals), tindex)
      THEN Raised("IndexError")
      ELSE [kind |-> "ok", tindex |-> tindex,
            dT |-> RDiv(Q(kT - PyGet(Tvals, tindex)), Q(PyGet(g.dTvals, tindex)))]

\* the two interpolation weights exchanged
Interp_swapped(a, b, dT) == RAdd(RMul(a, dT), RMul(b, RSub(Q(1), dT)))

\* a*(1.-dT) + b*dT
Interp(a, b, dT) == RAdd(RMul(a, RSub(Q(1), dT)), RMul(b, dT))

\* a check that only rejects keys that are not free names
KeysDiffer_extra_only(elem_abund, names) == ~(DOMAIN elem_abund \subseteq SeqToSet(names))

\* set(elem_abund.keys()) != set(names)
KeysDiffer(elem_abund, names) == DOMAIN elem_abund # SeqToSet(names)

\* names.index(elem)
index_of(names, elem) == CHOOSE j \in 1..Len(names) : names[j] = elem /\ \A k \in 1..(j - 1) : names[k] # elem

\* the weighted sum over the dictionary's items of the interpolated free spectra
RECURSIVE FreeSum(_, _, _, _, _, _)
FreeSum(keys, elem_abund, names, vspec, dT, b) ==
  IF keys = {} THEN Q(0)
  ELSE LET elem == CHOOSE k \in keys : TRUE
           j == index_of(names, elem)
       IN  RAdd(RMul(Q(elem_abund[elem]), Interp(vspec[j][1][b], vspec[j][2][b], dT)),
                FreeSum(keys \ {elem}, elem_abund, names, vspec, dT, b))

\* the part get_spectrum and get_nei_spectrum share, from _spectrum_init on
\* (lines 887-899 and 929-938); abund is unused without metals
Retrieve(g, kT, abund, redshift, norm, elem_abund, names) ==
  LET init == _spectrum_init(g, kT)
  IN  IF init.kind = "error" THEN init
      ELSE IF init.tindex >= Len(Tvals) - 1 \/ init.tindex < 0
      THEN [kind |-> "ndarray", flux |-> [b \in 1..g.nbins |-> Q(0)], built |-> FALSE,
            tindex |-> init.tindex]
      ELSE
        LET t == _get_table(g, <<init.tindex, init.tindex + 1>>, redshift)
            spec == [b \in 1..g.nbins |->
                       RAdd(RAdd(Interp(t.cspec[1][b], t.cspec[2][b], init.dT),
                                 RMul(Q(abund), Interp(t.mspec[1][b], t.mspec[2][b], init.dT))),
                            FreeSum(DOMAIN elem_abund, elem_abund, names, t.vspec, init.dT, b))]
        IN  [kind |-> "Spectrum",
             obj |-> Spectrum(SpectrumUnits, g.ebins,
                              [b \in 1..g.nbins |-> RDiv(RMul(Q(norm), spec[b]), Q(g.de[b]))]),
             built |-> TRUE, tindex |-> init.tindex, dT |-> init.dT]

EmptyDict == [k \in {} |-> 0]

\* get_spectrum with the temperature lookup made before the key check
get_spectrum_lookup_first(g, kT, abund, redshift, norm, elem_abund) ==
  IF g.nei THEN [kind |-> "error", err |-> "RuntimeError", why |-> "mode"]
  ELSE LET d == IF elem_abund.none THEN EmptyDict ELSE elem_abund.d
           init == _spectrum_init(g, kT)
       IN  IF init.kind = "error" THEN init
           ELSE IF init.tindex >= Len(Tvals) - 1 \/ init.tindex < 0
           THEN [kind |-> "ndarray", flux |-> [b \in 1..g.nbins |-> Q(0)],
                 built |-> FALSE, tindex |-> init.tindex]
           ELSE IF KeysDiffer(d, g.var_elem_names)
           THEN [kind |-> "error", err |-> "RuntimeError", why |-> "keys"]
           ELSE Retrieve(g, kT, abund, redshift, norm, d, g.var_elem_names)

\* ApecGenerator.get_spectrum; elem_abund is [none |-> TRUE] or
\* [none |-> FALSE, d |-> dictionary]
get_spectrum(g, kT, abund, redshift, norm, elem_abund) ==
  IF g.nei THEN [kind |-> "error", err |-> "RuntimeError", why |-> "mode"]
  ELSE LET d == IF elem_abund.none THEN EmptyDict ELSE elem_abund.d
       IN  IF KeysDiffer(d, g.var_elem_names)
           THEN [kind |-> "error", err |-> "RuntimeError", why |-> "keys"]
           ELSE Retrieve(g, kT, abund, redshift, norm, d, g.var_elem_names)

\* ApecGenerator.get_nei_spectrum
get_nei_spectrum(g, kT, elem_abund, redshift, norm) ==
  IF ~g.nei THEN [kind |-> "error", err |-> "RuntimeError", why |-> "mode"]
  ELSE IF elem_abund.none
  THEN \* None has no keys()
       [kind |-> "error", err |-> "AttributeError", why |-> "keys"]
  ELSE IF KeysDiffer(elem_abund.d, g.var_ion_names)
  THEN [kind |-> "error", err |-> "RuntimeError", why |-> "keys"]
  ELSE Retrieve(g, kT, 0, redshift, norm, elem_abund.d, g.var_ion_names)

\* the var_elem arguments generators are built with
VarElemArgs ==
  {[none |-> TRUE]} \cup
  {[none |-> FALSE, list |-> l] :
     l \in {<<"O">>, <<"O", "C">>, <<"O^1">>, <<"O^2", "O^1">>, <<"O^1", "O^01">>}}

\* the elem_abund arguments: None, and dictionaries over these key sets
AbundArgs ==
  {[none |-> TRUE]} \cup
  {[none |-> FALSE, d |-> d] :
     d \in UNION {[K -> 1..MaxAbund] :
                    K \in {{}, {"O"}, {"C"}, {"C", "O"}, {"O^1"}, {"O^1", "O^2"}}}}

\* A retrieval changes nothing the generator holds, so its result does not
\* depend on earlier retrievals: one is followed from each generator.
GetSpectrum ==
  /\ acall = NoCall
  /\ \E kT \in 0..MaxKT, abund \in 1..MaxAbund, redshift \in {0, 1}, ea \in AbundArgs :
       /\ acall' = [op |-> "get_spectrum", kT |-> kT, abund |-> abund, redshift |-> redshift,
                    norm |-> 1, elem_abund |-> ea]
       /\ ares' = get_spectrum(gen, kT, abund, redshift, 1, ea)
       /\ UNCHANGED <<sp, nops, last, res, gen, hist, rng, budget, tbabs>>

GetNeiSpectrum ==
  /\ acall = NoCall
  /\ \E kT \in 0..MaxKT, redshift \in {0, 1}, ea \in AbundArgs :
       /\ acall' = [op |-> "get_nei_spectrum", kT |-> kT, abund |-> 0, redshift |-> redshift,
                    norm |-> 1, elem_abund |-> ea]
       /\ ares' = get_nei_spectrum(gen, kT, ea, redshift, 1)
       /\ UNCHANGED <<sp, nops, last, res, gen, hist, rng, budget, tbabs>>

\* the (element, ion) pairs _get_table calls _make_spectrum with: the
\* cosmic elements (fully ionized in non-equilibrium mode), the metals, and
\* the free entries
TableEntries(g) ==
  {<<e, IF g.nei THEN e ELSE 0>> : e \in SeqToSet(g.cosmic_elem)}
    \cup {<<e, 0>> : e \in SeqToSet(g.metal_elem)}
    \cup SeqToSet(g.var_elem)

\* one _make_spectrum call as _get_table makes it for a temperature row
MakeSpectrum ==
  /\ acall = NoCall
  /\ \E ikT \in 0..(Len(Tvals) - 1), entry \in TableEntries(gen), redshift \in {0, 1} :
       /\ acall' = [op |-> "_make_spectrum", ikT |-> ikT, element |-> entry[1],
                    ion |-> entry[2], redshift |-> redshift]
       /\ ares' = [kind |-> "ndarray",
                   flux |-> _make_spectrum(gen, ikT, entry[1], entry[2],
                                           RDiv(Q(1), Q(1 + redshift)))]
       /\ UNCHANGED <<sp, nops, last, res, gen, hist, rng, budget, tbabs>>

\* ----------------------------------------------------------- specification
NoGen == [nei |-> FALSE]

InitSpectrum ==
  /\ \E g \in Grids, a \in 0..MaxFlux, b \in 0..MaxFlux, c \in 0..MaxFlux :
       sp = Spectrum(SpectrumUnits, g, [i \in 1..(Len(g) - 1) |->
                        Q(IF i = 1 THEN a ELSE IF i = 2 THEN b ELSE c)])
  /\ nops = 0
  /\ last = NoCall
  /\ res = NoResult

\* what the Spectrum specifications leave alone
NoApec ==
  /\ gen = NoGen
  /\ acall = NoCall
  /\ ares = NoResult

Init ==
  /\ InitSpectrum
  /\ NoApec
  /\ hist = <<>>
  /\ tbabs = NoTbabs
  /\ rng = FreshRng
  /\ budget = MaxOps

Next ==
  \/ Add
  \/ RescaleFlux
  \/ ApplyForegroundAbsorption
  \/ AddEmissionLine
  \/ AddAbsorptionLine

Spec == Init /\ [][Next]_vars

\* ---------------------------------------------- repeated absorption
\* number of apply_foreground_absorption calls followed on one Spectrum
MaxAbsorb == 2

\* the bin fluxes of the spectra absorbed
AbsorbedFluxes == {0, 1}

InitAbsorb ==
  /\ \E a \in AbsorbedFluxes, b \in AbsorbedFluxes :
       sp = Spectrum(SpectrumUnits, <<3, 5, 7>>, <<Q(a), Q(b)>>)
  /\ nops = 0
  /\ last = NoCall
  /\ res = NoResult
  /\ NoApec
  /\ hist = <<>>
  /\ tbabs = NoTbabs
  /\ rng = FreshRng
  /\ budget = MaxAbsorb

NextAbsorb == ApplyForegroundAbsorption

SpecAbsorb == InitAbsorb /\ [][NextAbsorb]_vars

\* ------------------------------------------------------ repeated sampling
\* number of generate_energies calls followed on one Spectrum
MaxSamples == 2

\* the bin fluxes of the spectra sampled: the mean count, and with it the
\* number of variates of one call, grows with the total flux
SampledFluxes == {0, 1}

InitSample ==
  /\ \E a \in SampledFluxes, b \in SampledFluxes :
       sp = Spectrum(SpectrumUnits, <<3, 5, 7>>, <<Q(a), Q(b)>>)
  /\ nops = 0
  /\ last = NoCall
  /\ res = NoResult
  /\ NoApec
  /\ hist = <<>>
  /\ tbabs = NoTbabs
  /\ rng = FreshRng
  /\ budget = MaxSamples

NextSample == GenerateEnergies

SpecSample == InitSample /\ [][NextSample]_vars

\* ------------------------------------------------------- the tbabs table
\* number of calls followed in one process
MaxTbabsCalls == 2

InitTbabs ==
  /\ \E a \in BOOLEAN :
       sp = Spectrum(SpectrumUnits, <<3, 5, 7>>, <<Q(1), Q(IF a THEN 1 ELSE 0)>>)
  /\ nops = 0
  /\ last = NoCall
  /\ res = NoResult
  /\ NoApec
  /\ hist = <<>>
  /\ tbabs = NoTbabs
  /\ rng = FreshRng
  /\ budget = MaxTbabsCalls

NextTbabs ==
  \/ TbabsCrossSection
  \/ GetTbabsAbsorb
  \/ ApplyForegroundAbsorption

SpecTbabs == InitTbabs /\ [][NextTbabs]_vars

\* ------------------------------------------------- grids of any spacing
\* increasing edge sequences, evenly spaced or not, that Spectrum objects
\* are constructed on
AnyGrids == {<<3, 5, 7>>, <<3, 5, 9>>, <<3, 4, 7, 9>>}

InitGrid ==
  /\ \E g \in AnyGrids, a \in 0..MaxFlux, b \in 0..MaxFlux, c \in 0..MaxFlux :
       sp = Spectrum(SpectrumUnits, g, [i \in 1..(Len(g) - 1) |->
                        Q(IF i = 1 THEN a ELSE IF i = 2 THEN b ELSE c)])
  /\ nops = 0
  /\ last = NoCall
  /\ res = NoResult
  /\ NoApec
  /\ hist = <<>>
  /\ tbabs = NoTbabs
  /\ rng = FreshRng
  /\ budget = MaxOps

NextGrid == GetFluxInBand

SpecGrid == InitGrid /\ [][NextGrid]_vars

\* ------------------------------------------------- building new spectra
NextBuild ==
  \/ FromPowerlaw
  \/ NewSpecFromBand

SpecBuild == Init /\ [][NextBuild]_vars

\* --------------------------------------------------- convolved spectra
\* number of calls followed on one ConvolvedSpectrum before deconvolve
MaxConvOps == 1

InitConvolved ==
  /\ \E a \in 0..MaxFlux, b \in 0..MaxFlux, arf \in Arfs :
       sp = ConvolvedSpectrum(Spectrum(SpectrumUnits, <<3, 5, 7>>, <<Q(a), Q(b)>>), arf)
  /\ nops = 0
  /\ last = NoCall
  /\ res = NoResult
  /\ NoApec
  /\ hist = <<>>
  /\ tbabs = NoTbabs
  /\ rng = FreshRng
  /\ budget = MaxConvOps

NextConvolved ==
  \/ RescaleFlux
  \/ AddEmissionLine
  \/ ConvolvedApplyForegroundAbsorption
  \/ ConvolvedFromModel
  \/ Deconvolve

SpecConvolved == InitConvolved /\ [][NextConvolved]_vars

\* a generator after a successful construction, and one fixed Spectrum
InitApec ==
  /\ \E g \in Grids, ve \in VarElemArgs, nei \in BOOLEAN :
       /\ ApecGenerator(g, ve, nei).kind = "ApecGenerator"
       /\ gen = ApecGenerator(g, ve, nei)
  /\ acall = NoCall
  /\ ares = NoResult
  /\ sp = Spectrum(SpectrumUnits, <<3, 5, 7>>, <<Q(1), Q(1)>>)
  /\ nops = 0
  /\ last = NoCall
  /\ res = NoResult
  /\ hist = <<>>
  /\ tbabs = NoTbabs
  /\ rng = FreshRng
  /\ budget = 0

NextApec ==
  \/ GetSpectrum
  \/ GetNeiSpectrum

SpecApec == InitApec /\ [][NextApec]_vars

\* the spectra of single elements
NextMake == MakeSpectrum

SpecMake == InitApec /\ [][NextMake]_vars

\* ------------------------------------------------------ claims: Spectrum
\* the edges of a Spectrum object in the units of an addition's operand
FineEdges(s) == [i \in 1..Len(s.ebins) |-> s.ebins[i] * FineScale]

\* A + B returned a Spectrum on A's edges holding the elementwise sum
SumReturned ==
  /\ res.kind = "Spectrum"
  /\ res.obj.ebins = sp.ebins
  /\ Len(res.obj.flux) = sp.nbins
  /\ \A i \in 1..sp.nbins : res.obj.flux[i] = RAdd(sp.flux[i], last.other.flux[i])

\* some edge of the operand lies further from A's edge than np.isclose
\* allows: |a - b| > 1e-8 + 1e-5*|b|
EdgeOutOfTolerance ==
  \E i \in 1..Len(sp.ebins) :
    Abs(FineEdges(sp)[i] - last.other.ebins[i]) * RtolInv
      > Atol * RtolInv + Abs(last.other.ebins[i])

C8_CumspecIsDistribution ==
  /\ Len(sp.cumspec) = sp.nbins + 1
  /\ sp.cumspec[1] = Q(0)
  /\ \A i \in 1..sp.nbins : RLeq(sp.cumspec[i], sp.cumspec[i + 1])
  /\ sp.cumspec[sp.nbins + 1] = Q(1)

\* the integrated photon flux of the object's current flux array
TotalOf(s) == RMul(RSum(s.flux), Q(s.de))

\* C9: a Spectrum whose total flux is zero never holds a non-finite
\* cumulative distribution: the computation raises instead of storing one,
\* for the object under mutation and for a returned sum alike.
C9_ZeroTotalFluxRaises ==
  /\ TotalOf(sp) = Q(0) => \A i \in 1..Len(sp.cumspec) : IsFinite(sp.cumspec[i])
  /\ (res.kind = "Spectrum" /\ TotalOf(res.obj) = Q(0)) =>
        \A i \in 1..Len(res.obj.cumspec) : IsFinite(res.obj.cumspec[i])

\* C10: in every state a call has returned to, the cached totals and the
\* cumulative distribution are those of the current flux array.
C10_CachesMatchFlux ==
  /\ sp.total_flux = TotalOf(sp)
  /\ sp.total_energy_flux =
       RMul(RSum([i \in 1..sp.nbins |-> RMul(RMul(sp.flux[i], sp.emid[i]), erg_per_keV)]),
            Q(sp.de))
  /\ Len(sp.cumspec) = sp.nbins + 1
  /\ \A i \in 1..(sp.nbins + 1) :
       sp.cumspec[i] = RDiv(RMul(RSum(SubSeq(sp.flux, 1, i - 1)), Q(sp.de)), TotalOf(sp))

\* the budget of calls is spent, the last call was a mutation that returned
\* and left a non-zero flux with a fractional bin
C10_Witness ==
  /\ nops = MaxOps
  /\ last.op \in {"rescale_flux", "apply_foreground_absorption",
                  "add_emission_line", "add_absorption_line"}
  /\ res.kind = "None"
  /\ IsFinite(sp.total_flux) /\ sp.total_flux # Q(0)
  /\ \E i \in 1..sp.nbins : sp.flux[i][2] > 1

\* ------------------------------------------------- claims: ApecGenerator
\* the keys of the call's elem_abund dictionary (None: no keys)
CallKeys == IF acall.elem_abund.none THEN {} ELSE DOMAIN acall.elem_abund.d

\* a get_spectrum call on an equilibrium generator whose keys are the free
\* element names: the call reaches the temperature lookup
Validated ==
  /\ acall.op = "get_spectrum"
  /\ ~gen.nei
  /\ CallKeys = SeqToSet(gen.var_elem_names)

TopT == Tvals[Len(Tvals)]

\* the call returned, and what it returned holds nbins zeros
ReturnedZeros ==
  /\ ares.kind \in {"ndarray", "Spectrum"}
  /\ LET flux == IF ares.kind = "Spectrum" THEN ares.obj.flux ELSE ares.flux
     IN  Len(flux) = gen.nbins /\ \A b \in 1..gen.nbins : flux[b] = Q(0)

\* the flux built from temperature row i (0-based) alone, in bin b:
\* 1e14*norm*(cosmic + abund*metal + sum of elem_abund[e]*free_e)/de
GridComposition(i, b) ==
  LET t == _get_table(gen, <<i>>, acall.redshift)
      free == [j \in 1..gen.num_var_elem |->
                 RMul(Q(acall.elem_abund.d[gen.var_elem_names[j]]), t.vspec[j][1][b])]
  IN  RDiv(RMul(Q(acall.norm),
                RAdd(RAdd(t.cspec[1][b], RMul(Q(acall.abund), t.mspec[1][b])), RSum(free))),
           Q(gen.de[b]))

\* C2: a validated get_spectrum call with kT at or above the top of the
\* temperature grid raises nothing and returns nbins zeros.
C2_TopOfGridReturnsZeros ==
  (Validated /\ acall.kT >= TopT) => ReturnedZeros

\* C3: a validated get_spectrum call with kT below Tvals[0] raises nothing
\* and returns nbins zeros without building a temperature table.
C3_BelowGridReturnsZeros ==
  (Validated /\ acall.kT < Tvals[1]) => (ReturnedZeros /\ ~ares.built)

\* a validated call below the grid, with free abundances, has returned
C3_Witness ==
  /\ Validated
  /\ acall.kT < Tvals[1]
  /\ CallKeys # {}
  /\ ares.kind = "ndarray"

\* C4: for kT in [Tvals[0], Tvals[-1]) a validated call returns the
\* spectrum interpolated between rows tindex and tindex+1, where tindex =
\* searchsorted(Tvals, kT) - 1 lies in 0..nT-2 and Tvals[tindex] <= kT <
\* Tvals[tindex+1].
C4_InGridInterpolates ==
  (Validated /\ Tvals[1] <= acall.kT /\ acall.kT < TopT) =>
    /\ ares.kind = "Spectrum"
    /\ 0 <= ares.tindex /\ ares.tindex <= Len(Tvals) - 2
    /\ Tvals[ares.tindex + 1] <= acall.kT /\ acall.kT < Tvals[ares.tindex + 2]
    /\ LET dT == Norm(acall.kT - Tvals[ares.tindex + 1],
                      Tvals[ares.tindex + 2] - Tvals[ares.tindex + 1])
       IN  \A b \in 1..gen.nbins :
             ares.obj.flux[b] =
               RAdd(RMul(RSub(Q(1), dT), GridComposition(ares.tindex, b)),
                    RMul(dT, GridComposition(ares.tindex + 1, b)))

\* C5: with kT on an interior grid point Tvals[i] a validated call returns
\* the flux composed from row i alone.
C5_OnGridPointIsThatRow ==
  \A i \in 1..(Len(Tvals) - 2) :
    (Validated /\ acall.kT = Tvals[i + 1]) =>
      /\ ares.kind = "Spectrum"
      /\ \A b \in 1..gen.nbins : ares.obj.flux[b] = GridComposition(i, b)

\* a validated call on an interior grid point returned a flux that differs
\* from the one of the row below
C5_Witness ==
  \E i \in 1..(Len(Tvals) - 2) :
    /\ Validated
    /\ acall.kT = Tvals[i + 1]
    /\ ares.kind = "Spectrum"
    /\ \E b \in 1..gen.nbins : ares.obj.flux[b] # GridComposition(i - 1, b)

\* the free names the called method compares the keys with
FreeNames ==
  SeqToSet(IF acall.op = "get_spectrum" THEN gen.var_elem_names ELSE gen.var_ion_names)

\* C6: get_spectrum and get_nei_spectrum return only when the keys of
\* elem_abund are exactly the free names; any other key set raises; a
\* generator without free elements takes None and the empty dictionary past
\* the key check.
C6_KeysMustMatch ==
  acall.op \in {"get_spectrum", "get_nei_spectrum"} =>
    /\ ares.kind # "error" => CallKeys = FreeNames
    /\ CallKeys # FreeNames => ares.kind = "error"
    /\ (gen.num_var_elem = 0 /\ CallKeys = {}) =>
         (ares.kind = "error" => ares.why # "keys")

\* a retrieval with two matching keys returned a Spectrum
C6_Witness ==
  /\ acall.op \in {"get_spectrum", "get_nei_spectrum"}
  /\ Cardinality(CallKeys) = 2
  /\ CallKeys = FreeNames
  /\ ares.kind = "Spectrum"

\* C7: whatever a retrieval returns is a Spectrum on the generator's edges,
\* for temperatures in and out of the grid.
C7_ResultIsSpectrumOnGrid ==
  (acall.op \in {"get_spectrum", "get_nei_spectrum"} /\ ares.kind # "error") =>
    (ares.kind = "Spectrum" /\ ares.obj.ebins = gen.ebins)

\* the last call, with the object it was made on and its outcome
LastCall == hist[Len(hist)]

\* the band of the last rescale_flux call with None read as rescale_flux
\* reads it: the first and the last edge
RescaledBand ==
  <<IF last.band[1] = NoneVal THEN LastCall.before.ebins[1] ELSE last.band[1],
    IF last.band[2] = NoneVal THEN LastCall.before.ebins[Len(LastCall.before.ebins)]
    ELSE last.band[2]>>

\* the integral rescale_flux(new_flux, emin, emax, flux_type) was asked to
\* set, measured by get_flux_in_band(emin, emax) on the object s
IntegralOfType(s) ==
  get_flux_in_band(s, RescaledBand[1], RescaledBand[2])[IF last.flux_type = "photons" THEN 1 ELSE 2]

\* C11: after rescale_flux(new_flux, emin, emax, flux_type) on a spectrum
\* whose band integral is finite and non-zero, get_flux_in_band(emin, emax)
\* gives new_flux as the integral of that flux_type, and every bin, in the
\* band or not, is the old bin times new_flux / (band integral before).
C11_RescaleSetsBandIntegral ==
  (last.op = "rescale_flux" /\ res.kind = "None") =>
    LET f == IntegralOfType(LastCall.before)
    IN  (IsFinite(f) /\ f # Q(0)) =>
          /\ IntegralOfType(sp) = Q(last.new_flux)
          /\ \A i \in 1..sp.nbins :
               sp.flux[i] = RMul(LastCall.before.flux[i], RDiv(Q(last.new_flux), f))

\* an energy rescale over the upper part of the grid has changed a non-zero
\* bin that lies outside the band
C11_Witness ==
  /\ last.op = "rescale_flux" /\ res.kind = "None"
  /\ last.flux_type = "energy" /\ last.band = <<5, NoneVal>> /\ last.new_flux = 1
  /\ IntegralOfType(LastCall.before) \notin {Q(0), Q(1)}
  /\ IsFinite(IntegralOfType(LastCall.before))
  /\ LastCall.before.flux[1] # Q(0)
  /\ sp.flux[1] # LastCall.before.flux[1]

\* the object as call k of the history left it
After(k) == IF k = Len(hist) THEN sp ELSE hist[k + 1].before

\* the object one apply_foreground_absorption(nH, model, redshift) call
\* leaves of s; the tbabs cross sections are those of the table, whenever
\* it was read
AbsorbedBy(model, s, nH, redshift) ==
  IF model = "wabs" THEN apply_foreground_absorption(s, nH, redshift)
  ELSE apply_foreground_absorption_tbabs(s, nH, redshift, NoTbabs).obj

\* calls k and k+1 are absorptions that returned, with one model and one
\* redshift
AbsorbedTwice(k) ==
  /\ hist[k].call.op = "apply_foreground_absorption"
  /\ hist[k + 1].call.op = "apply_foreground_absorption"
  /\ hist[k].result.kind = "None" /\ hist[k + 1].result.kind = "None"
  /\ hist[k].call.model = hist[k + 1].call.model
  /\ hist[k].call.redshift = hist[k + 1].call.redshift

\* C12: two absorptions in a row with columns nH1 and nH2 (one model, one
\* redshift) leave in every bin the flux of a single absorption with
\* nH1 + nH2 of the spectrum they started from, and the flux of the two
\* applied in the other order.
C12_AbsorptionAddsColumns ==
  \A k \in 1..(Len(hist) - 1) :
    AbsorbedTwice(k) =>
      LET s0 == hist[k].before
          z == hist[k].call.redshift
          nH1 == hist[k].call.nH
          nH2 == hist[k + 1].call.nH
          m == hist[k].call.model
      IN  /\ After(k + 1).flux = AbsorbedBy(m, s0, nH1 + nH2, z).flux
          /\ After(k + 1).flux = AbsorbedBy(m, AbsorbedBy(m, s0, nH2, z), nH1, z).flux

\* two absorptions with non-zero columns have each changed the flux
C12_Witness ==
  /\ Len(hist) = 2
  /\ AbsorbedTwice(1)
  /\ hist[1].call.nH > 0 /\ hist[2].call.nH > 0
  /\ hist[2].before.flux # hist[1].before.flux
  /\ sp.flux # hist[2].before.flux

\* call k of the history is a generate_energies call
Sampled(k) == hist[k].call.op = "generate_energies"

C14_PowerlawFlux ==
  last.op = "from_powerlaw" =>
    /\ res.kind = "Spectrum"
    /\ Len(res.obj.ebins) = last.nbins + 1
    /\ res.obj.ebins[1] = last.emin /\ res.obj.ebins[last.nbins + 1] = last.emax
    /\ \A i \in 1..last.nbins :
         res.obj.ebins[i + 1] - res.obj.ebins[i] = res.obj.ebins[2] - res.obj.ebins[1]
    /\ Len(res.obj.flux) = last.nbins
    /\ last.redshift = 0 =>
         \A i \in 1..last.nbins :
           LET emid == RMul(<<1, 2>>, Q(res.obj.ebins[i] + res.obj.ebins[i + 1]))
           IN  IF last.photon_index >= 0
               THEN RMul(res.obj.flux[i], RPow(emid, last.photon_index)) = Q(last.norm)
               ELSE res.obj.flux[i] = RMul(Q(last.norm), RPow(emid, -last.photon_index))

\* a power law of index 2 at redshift 0 on two bins has been built
C14_Witness ==
  /\ last.op = "from_powerlaw"
  /\ last.photon_index = 2 /\ last.redshift = 0 /\ last.nbins = 2
  /\ res.kind = "Spectrum"
  /\ res.obj.flux[1] # res.obj.flux[2]

\* the places (from 1) of the edges of the object the last call was made on
\* that lie in the call's band, both ends included
SelectedEdges ==
  {i \in 1..Len(LastCall.before.ebins) :
     last.emin <= LastCall.before.ebins[i] /\ LastCall.before.ebins[i] <= last.emax}

\* what new_spec_from_band returned is the part of the original between the
\* selected edges: those edges in order, one bin less than edges, bin k
\* with the flux of the original bin that starts at the k-th selected edge
ReturnedBandPart ==
  /\ res.kind = "Spectrum"
  /\ LET n == Cardinality(SelectedEdges)
         nth(k) == CHOOSE i \in SelectedEdges : Cardinality({j \in SelectedEdges : j < i}) = k - 1
     IN  /\ Len(res.obj.ebins) = n
         /\ res.obj.nbins = n - 1
         /\ Len(res.obj.flux) = n - 1
         /\ \A k \in 1..n : res.obj.ebins[k] = LastCall.before.ebins[nth(k)]
         /\ \A k \in 1..(n - 1) :
              /\ nth(k + 1) = nth(k) + 1
              /\ res.obj.flux[k] = LastCall.before.flux[nth(k)]

\* C19 as stated: new_spec_from_band(emin, emax) returns, for every band, a
\* Spectrum on the edges in [emin, emax] with one bin less than edges and
\* the original flux between them, and leaves the original unchanged.
C19_BandPartForEveryBand ==
  last.op = "new_spec_from_band" => (ReturnedBandPart /\ sp = LastCall.before)

\* C19 as amended: when at least two edges lie in [emin, emax] the call
\* returns that Spectrum; when fewer do, it raises IndexError and returns
\* nothing; the original is unchanged either way.
C19_BandPartWhenTwoEdges ==
  last.op = "new_spec_from_band" =>
    /\ sp = LastCall.before
    /\ IF Cardinality(SelectedEdges) >= 2 THEN ReturnedBandPart
       ELSE res.kind = "error" /\ res.err = "IndexError"

\* a band whose two ends are edges has given a Spectrum of two bins with
\* different fluxes, cut from a longer one
C19_Witness ==
  /\ last.op = "new_spec_from_band"
  /\ last.emin = 5 /\ last.emax = 9
  /\ sp.nbins = 3
  /\ res.kind = "Spectrum" /\ res.obj.nbins = 2
  /\ res.obj.flux[1] # res.obj.flux[2]

\* C15: on a ConvolvedSpectrum every apply_foreground_absorption call and
\* every call of the four model constructors raises NotImplementedError,
\* and the absorption call leaves the object, its flux and cached totals
\* included, as it was.
C15_ConvolvedUnsupported ==
  \A k \in 1..Len(hist) :
    /\ (hist[k].call.op = "apply_foreground_absorption"
          /\ hist[k].before.units = ConvolvedUnits) =>
         /\ hist[k].result.kind = "error"
         /\ hist[k].result.err = "NotImplementedError"
         /\ After(k) = hist[k].before
    /\ hist[k].call.op \in ConvolvedConstructors =>
         /\ hist[k].result.kind = "error"
         /\ hist[k].result.err = "NotImplementedError"

\* an absorption call with a non-zero column on a convolved spectrum with
\* non-zero flux has raised
C15_Witness ==
  /\ last.op = "apply_foreground_absorption"
  /\ sp.units = ConvolvedUnits
  /\ last.nH > 0 /\ last.model = "wabs"
  /\ IsFinite(sp.total_flux) /\ sp.total_flux # Q(0)
  /\ res.kind = "error"

\* C16: deconvolve returns a plain Spectrum on the same edges whose flux in
\* each bin is the convolved flux divided by the effective area of the bin,
\* and exactly 0 where that quotient is not finite (NaN or an infinity),
\* after any calls made on the convolved spectrum.
C16_DeconvolveZeroesNonFinite ==
  last.op = "deconvolve" =>
    /\ res.kind = "Spectrum"
    /\ res.obj.units = SpectrumUnits
    /\ res.obj.ebins = sp.ebins
    /\ \A i \in 1..sp.nbins :
         LET q == RDiv(sp.flux[i], interpolate_area(sp.arf, sp.emid[i]))
         IN  res.obj.flux[i] = IF IsFinite(q) THEN q ELSE Q(0)

C18_FreeElementsAreDistinct ==
  \A i, j \in 1..Len(gen.var_elem) :
    i # j => IF gen.nei THEN gen.var_elem[i] # gen.var_elem[j]
             ELSE gen.var_elem[i][1] # gen.var_elem[j][1]

\* the calls of the history that add a line with a profile other than
\* "gaussian"
UnsupportedLineCalls ==
  {k \in 1..Len(hist) :
     /\ hist[k].call.op \in {"add_emission_line", "add_absorption_line"}
     /\ hist[k].call.line_type # "gaussian"}

TbabsCall(c) ==
  \/ c.op \in {"tbabs_cross_section", "get_tbabs_absorb"}
  \/ c.op = "apply_foreground_absorption" /\ c.model = "tbabs"

\* C21: in every sequence of tbabs_cross_section, get_tbabs_absorb and
\* apply_foreground_absorption(model="tbabs") calls of one process the
\* table file is read and the spline built once, by the first of them: a
\* call that finds no spline leaves the file read once and a spline in
\* place, a call that finds one leaves the globals as they are, and no
\* other call touches them.
C21_TbabsLoadedOnce ==
  [][IF nops' # nops /\ TbabsCall(last')
     THEN /\ tbabs'.opened = 1
          /\ tbabs'.spline # NoSpline
          /\ tbabs.spline # NoSpline => tbabs' = tbabs
     ELSE tbabs' = tbabs]_vars

\* a cross section was looked up, then a spectrum absorbed with the tbabs
\* model, which lowered its flux: the file was read once and the spline is
\* the one the first call built
C21_Witness ==
  /\ Len(hist) = 2
  /\ hist[1].call.op = "tbabs_cross_section"
  /\ hist[2].call.op = "apply_foreground_absorption" /\ hist[2].call.model = "tbabs"
  /\ hist[2].call.nH > 0
  /\ sp.flux # hist[2].before.flux
  /\ tbabs.opened = 1
  /\ tbabs.spline.serial = 1

\* the called method is the one of the generator's mode
ModeMatches == (acall.op = "get_spectrum") = ~gen.nei

\* the call's temperature lies outside [Tvals[0], Tvals[-1])
OutOfGrid == acall.kT < Tvals[1] \/ acall.kT >= TopT

\* C22: get_spectrum and get_nei_spectrum check the mode, then the keys of
\* elem_abund, then look the temperature up: a call of the wrong mode ends
\* in the mode error and a call of the right mode whose keys differ from
\* the free names ends at the key check (RuntimeError for every
\* dictionary), whatever kT is; the zero result and every other outcome of
\* the temperature lookup come only from calls of the right mode with
\* matching keys.
C22_ValidationBeforeLookup ==
  acall.op \in {"get_spectrum", "get_nei_spectrum"} =>
    /\ ~ModeMatches => (ares.kind = "error" /\ ares.why = "mode")
    /\ (ModeMatches /\ CallKeys # FreeNames) =>
         /\ ares.kind = "error" /\ ares.why = "keys"
         /\ (~acall.elem_abund.none \/ acall.op = "get_spectrum") =>
              ares.err = "RuntimeError"
    /\ (ares.kind # "error" \/ ares.why = "other") =>
         (ModeMatches /\ CallKeys = FreeNames)

\* a call of the right mode with a wrong key and kT below the grid ended in
\* the key error
C22_Witness ==
  /\ acall.op = "get_spectrum"
  /\ ModeMatches
  /\ ~acall.elem_abund.none
  /\ CallKeys # FreeNames /\ CallKeys # {}
  /\ OutOfGrid
  /\ ares = [kind |-> "error", err |-> "RuntimeError", why |-> "keys"]

\* the scale factor 1/(1+z) of the last _make_spectrum call
CallScale == RDiv(Q(1), Q(1 + acall.redshift))

\* the lines of the call's element (and driving ion) inside the band
CallLines ==
  {r \in LineTable(acall.ikT) :
     /\ r.element = acall.element
     /\ r.energy < gen.ebins[gen.nbins + 1]
     /\ r.energy > gen.ebins[1]
     /\ (gen.nei => r.ion_drv = acall.ion + 1)}

\* the continuum rows that match the call's element and ionization state
CallContinuum ==
  {r \in CocoTable(gen.nei, acall.ikT) :
     r.Z = acall.element /\ r.rmJ = acall.ion + (IF gen.nei THEN 1 ELSE 0)}

\* the continuum and pseudo-continuum terms of bin b, scaled: nothing
\* without a matching row
ContinuumPart(b) ==
  IF CallContinuum = {} THEN Q(0)
  ELSE LET c == CHOOSE r \in CallContinuum : TRUE
       IN  RMul(RMul(Q(c.Continuum + c.Pseudo), RDiv(Q(gen.de[b]), CallScale)), CallScale)

\* C25: what _make_spectrum returns is, in every bin, the histogram of the
\* redshifted lines times the scale factor plus the scaled continuum terms,
\* with or without a continuum row for the element: a missing row only
\* removes the continuum terms.
C25_LinesScaledOnEveryPath ==
  acall.op = "_make_spectrum" =>
    \A b \in 1..gen.nbins :
      ares.flux[b] = RAdd(RMul(Histogram(gen, CallLines, CallScale, b), CallScale),
                          ContinuumPart(b))

\* the summed table spectra of the elements of set S for temperature row
\* (0-based) row, in bin b, at the call's redshift
ElementsPart(S, row, b) ==
  RSumOver([e \in S |-> _make_spectrum(gen, row, e, 0, CallScale)[b]], S)

\* the atomic numbers of the free elements the call's dictionary names
NamedElements == {elem_index(n) : n \in CallKeys}

\* the flux the composition formula gives in bin b for the bracket that
\* starts at Tvals[i] (i from 1): cosmic and metal elements are the default
\* ones that are not free, every dictionary entry weighs the spectrum of
\* the element it names
ComposedFlux(i, b) ==
  LET dT == Norm(acall.kT - Tvals[i], Tvals[i + 1] - Tvals[i])
      lin(lo, hi) == RAdd(RMul(RSub(Q(1), dT), lo), RMul(dT, hi))
      over(S) == lin(ElementsPart(S, i - 1, b), ElementsPart(S, i, b))
      C == over(SeqToSet(cosmic_elem) \ NamedElements)
      M == over(SeqToSet(metal_elem) \ NamedElements)
      V == RSumOver([e \in NamedElements |->
                       RMul(Q(acall.elem_abund.d[elem_names[e]]), over({e}))],
                    NamedElements)
  IN  RDiv(RMul(Q(acall.norm), RAdd(RAdd(C, RMul(Q(acall.abund), M)), V)), Q(gen.de[b]))

\* C23: for kT in the grid, [Tvals[0], Tvals[-1]), a validated get_spectrum
\* call returns in each bin norm/de times (C + abund*M + the sum over the
\* free elements of elem_abund[e]*V_e), each part interpolated linearly
\* between the two rows that bracket kT, each free abundance weighing the
\* spectrum of the element with its name in whatever order var_elem was
\* given, and abund weighing the metals only.
C23_CompositionInGrid ==
  (Validated /\ Tvals[1] <= acall.kT /\ acall.kT < TopT) =>
    LET i == CHOOSE k \in 1..(Len(Tvals) - 1) :
               Tvals[k] <= acall.kT /\ acall.kT < Tvals[k + 1]
    IN  /\ ares.kind = "Spectrum"
        /\ \A b \in 1..gen.nbins : ares.obj.flux[b] = ComposedFlux(i, b)

\* the sum over the bins of flux times the width of the bin
WidthWeightedFlux(s) ==
  RSum([i \in 1..Len(s.flux) |-> RMul(s.flux[i], Q(s.ebins[i + 1] - s.ebins[i]))])

\* C24: on every increasing edge sequence, evenly spaced or not, the
\* total_flux of a Spectrum is the sum over its bins of flux[i] times
\* (ebins[i+1] - ebins[i]), and get_flux_in_band over the whole range
\* returns that value.
C24_TotalFluxUsesBinWidths ==
  /\ sp.total_flux = WidthWeightedFlux(sp)
  /\ (/\ last.op = "get_flux_in_band"
      /\ last.emin <= sp.ebins[1]
      /\ last.emax >= sp.ebins[Len(sp.ebins)]) => res.value[1] = WidthWeightedFlux(sp)

====
